---- MODULE Spec2Model ----
(***************************************************************************)
(* A model of the gz-fuel client (src/src/fuel_client.rs): the FuelClient  *)
(* struct, the cache file it loads and writes, the staleness test and the  *)
(* paginated refresh.  The HTTP server, the file system and the progress   *)
(* receiver are the environment: their answers are inputs of the actions.  *)
(*                                                                         *)
(* Option<T> is a sequence of length at most one: None is <<>>, Some(x) is *)
(* <<x>>.  A Vec<T> is a sequence.                                         *)
(***************************************************************************)
EXTENDS Integers, Sequences, FiniteSets, TLC

\* ------------------------------------------------------------------ bounds
\* Decodable pages the transport serves within one refresh call.
MaxPages == 2
\* Records the transport serves within one refresh call, over all its pages.
MaxRecords == 2
\* The clock's last tick.
MaxTime == 2
\* Records in a snapshot the query layer is asked about.
MaxSnapshot == 3
\* Steps of fs::write logged before a client starts no further refresh.
MaxWriteSteps == 3
\* The offset in the text up to which a write call may end short.
MaxCut == 30
\* Write calls that end short, over all write_all calls.
MaxShortWrites == 1

\* ------------------------------------------------------------------ Option
None == <<>>
Some(x) == <<x>>
IsSome(o) == o # <<>>
Unwrap(o) == o[1]

\* ------------------------------------------------------------------ records
\* A FuelModel.  Of the nineteen fields the model keeps one that serde renames
\* (created_at), the identity (name, owner), the flag (private) and one of
\* the two defaulted lists (tags); the others are plain strings and numbers
\* that are copied like name.
FuelModel(c, n, o, p, t) ==
    [created_at |-> c, name |-> n, owner |-> o, private |-> p, tags |-> t]

\* JSON objects the server may put in a page, as parsed key/value maps.  W1 is
\* complete, W2 has no "tags" key, W3 lacks the required "owner" key.
W1 == [createdAt |-> "t1", name |-> "arm", owner |-> "Bob", private |-> FALSE,
       tags |-> <<"robot">>]
W2 == [createdAt |-> "t2", name |-> "cup", owner |-> "alice", private |-> TRUE]
W3 == [createdAt |-> "t3", name |-> "bad", private |-> FALSE]
WirePool == {W1, W2, W3}

\* The keys serde requires: every field without #[serde(default)], under its
\* wire name.
RequiredKeys == {"createdAt", "name", "owner", "private"}

\* Deserialize for FuelModel: None when a required key is missing, tags
\* defaulting to the empty list.
DeFuelModel(w) ==
    IF RequiredKeys \subseteq DOMAIN w
    THEN Some(FuelModel(w.createdAt, w.name, w.owner, w.private,
                        IF "tags" \in DOMAIN w THEN w.tags ELSE <<>>))
    ELSE None

\* Serialize without the rename: created_at written under its own name.
SerFuelModel_unrenamed(m) ==
    [created_at |-> m.created_at, name |-> m.name, owner |-> m.owner,
     private |-> m.private, tags |-> m.tags]

\* Serialize for FuelModel: every field is written, created_at as createdAt.
SerFuelModel(m) ==
    [createdAt |-> m.created_at, name |-> m.name, owner |-> m.owner,
     private |-> m.private, tags |-> m.tags]

\* A text: either the JSON array of the given objects, or something that is
\* no JSON array at all, with its bytes.
JsonArray(ws) == [json |-> TRUE, items |-> ws]
Garbage == [json |-> FALSE, items |-> <<>>, raw |-> "<html>"]

\* serde_json::from_str::<Vec<FuelModel>> / from_slice: Some(list) when the
\* text is an array whose every element deserializes, None otherwise.
from_str(text) ==
    IF text.json /\ \A i \in 1..Len(text.items) : IsSome(DeFuelModel(text.items[i]))
    THEN Some([i \in 1..Len(text.items) |-> Unwrap(DeFuelModel(text.items[i]))])
    ELSE None

\* serde_json::to_string_pretty(&self.models) with self.models = Some(list):
\* Option is transparent, the list becomes an array.
to_string_pretty(ms) == JsonArray([i \in 1..Len(ms) |-> SerFuelModel(ms[i])])

\* ------------------------------------------------------------------ state
Clients == {"a", "b"}
Paths == {"cache"}

VARIABLES
    clients,        \* the FuelClient values that exist
    cache_path,     \* [client -> Option<path>]        FuelClient.cache_path
    models,         \* [client -> Option<Vec<FuelModel>>] FuelClient.models
    pc,             \* [client -> "idle" | "fetching" | "creating" | "writing" |
                    \*   "done"]: its refresh call
    page,           \* build_cache: the page awaited
    acc,            \* build_cache: the local accumulator `models`
    write_to_disk,  \* update_cache_with_progress: argument
    progress,       \* update_cache_with_progress: no channel ("none"), one whose
                    \*   receiver lives ("open") or is gone ("closed")
    sent,           \* what the receiver of the progress channel has got
    requested,      \* the page numbers requested by the call, in order
    served,         \* the objects of the pages the transport answered with a
                    \*   decodable array, in the order it sent them
    answered,       \* how many pages the transport answered with a decodable array
    empties,        \* how many of these arrays were empty
    persisted,      \* how persistence went: "" | "skipped" | "ok" | "nopath" |
                    \*   "failed" (nothing written) | "partial" (file truncated)
    before,         \* FuelClient.models when the call began
    result,         \* what the call returned
    fs,             \* [path -> Option<[bytes, mtime]>]: the files
    cache_dir,      \* whether dirs::cache_dir() resolves
    now,            \* SystemTime::now()
    written,        \* [client -> how many bytes of its text its write_all has
                    \*   written]: the offset of its file handle, 0 without one
    shorts,         \* how many write calls have ended short
    arg_models,     \* the snapshot a caller has at hand to pass to a filter
    wlog,           \* the steps of fs::write taken one by one on the cache file:
                    \*   who truncated it ("create") and who wrote its whole
                    \*   text ("write")
    obs             \* the last answer of a synchronous operation

client_vars == <<clients, cache_path, models>>
call_vars == <<pc, page, acc, write_to_disk, progress, sent, requested, served, answered, empties,
               persisted, before, result>>
env_vars == <<fs, cache_dir, now, arg_models, wlog, written, shorts>>
vars == <<client_vars, call_vars, env_vars, obs>>

Upd(f, c, v) == [f EXCEPT ![c] = v]


OrElse(o, d) == IF IsSome(o) THEN o ELSE d

\* All sequences over S of length at most n.
SeqsUpTo(S, n) == UNION {[1..k -> S] : k \in 0..n}

\* ------------------------------------------------------------------ cache store
\* default_cache_path: the platform cache directory's subpath, None when
\* dirs::cache_dir() resolves nothing.
default_cache_path == IF cache_dir THEN Some("cache") ELSE None

\* A file: its bytes and its modification time.
File(bytes, mtime) == [bytes |-> bytes, mtime |-> mtime]

\* fs::read(&path).ok(): the bytes, None when the file is missing or the read
\* fails (io_ok is the environment's answer).
fs_read(p, io_ok) == IF IsSome(fs[p]) /\ io_ok THEN Some(Unwrap(fs[p]).bytes) ELSE None

\* with_cache, the value assigned to self.models: the file decoded, None on a
\* failed read or a failed decode.
load(p, io_ok) ==
    LET b == fs_read(p, io_ok)
    IN  IF IsSome(b) THEN from_str(Unwrap(b)) ELSE None

\* with_cache keeping the snapshot held when the file gives none.
with_cache_keep_on_failure(c, path, io_ok) ==
    LET p == OrElse(path, default_cache_path)
    IN  IF IsSome(p)
        THEN [models |-> OrElse(load(Unwrap(p), io_ok), models[c]),
              cache_path |-> Some(Unwrap(p))]
        ELSE [models |-> models[c], cache_path |-> cache_path[c]]

\* with_cache(self, path): the client's fields afterwards.
with_cache(c, path, io_ok) ==
    LET p == OrElse(path, default_cache_path)
    IN  IF IsSome(p)
        THEN [models |-> load(Unwrap(p), io_ok), cache_path |-> Some(Unwrap(p))]
        ELSE [models |-> models[c], cache_path |-> cache_path[c]]

\* last_updated: the cache file's modification time; None without a cache
\* path, without the file, or when opening it or reading its metadata fails.
last_updated(c, io_ok) ==
    IF ~IsSome(cache_path[c]) THEN None
    ELSE LET f == fs[Unwrap(cache_path[c])]
         IN  IF IsSome(f) /\ io_ok THEN Some(Unwrap(f).mtime) ELSE None

\* SystemTime::duration_since: the elapsed time, None (Err) when `earlier` is
\* later than self.
duration_since(later, earlier) ==
    IF earlier <= later THEN Some(later - earlier) ELSE None

\* should_update_cache matching on the threshold before it looks at the
\* metadata: without a threshold it answers false even with no cache.
should_update_cache_threshold_first(lu, threshold, t_now) ==
    IF ~IsSome(threshold) THEN FALSE
    ELSE IF ~IsSome(lu) THEN TRUE
    ELSE LET dt == IF Unwrap(lu) <= t_now THEN Some(t_now - Unwrap(lu)) ELSE None
         IN  IsSome(dt) /\ Unwrap(dt) > Unwrap(threshold)

\* should_update_cache comparing with >= instead of >.
should_update_cache_ge(lu, threshold, t_now) ==
    IF ~IsSome(lu) THEN TRUE
    ELSE IF IsSome(threshold)
         THEN LET dt == IF Unwrap(lu) <= t_now THEN Some(t_now - Unwrap(lu)) ELSE None
              IN  IsSome(dt) /\ Unwrap(dt) >= Unwrap(threshold)
         ELSE FALSE

\* should_update_cache, given last_updated()'s answer and the clock.
should_update_cache(lu, threshold, t_now) ==
    IF ~IsSome(lu) THEN TRUE
    ELSE IF IsSome(threshold)
         THEN LET dt == duration_since(t_now, Unwrap(lu))
              IN  IsSome(dt) /\ Unwrap(dt) > Unwrap(threshold)
         ELSE FALSE

\* ------------------------------------------------------------------ transport
\* What ehttp::fetch_async gives for one page: a failure, bytes that are not
\* UTF-8, or a text.
FetchErr == [ok |-> FALSE, utf8 |-> FALSE, text |-> Garbage]
NonUtf8 == [ok |-> TRUE, utf8 |-> FALSE, text |-> Garbage]
Body(text) == [ok |-> TRUE, utf8 |-> TRUE, text |-> text]

\* The answers a page may get, arrays holding at most n objects.
Responses(n) ==
    {FetchErr, NonUtf8, Body(Garbage)}
        \cup {Body(JsonArray(ws)) : ws \in SeqsUpTo(WirePool, n)}

\* build_cache, the let-else around the fetch: the body as a string.
fetch_text(r) == IF r.ok /\ r.utf8 THEN Some(r.text) ELSE None

\* build_cache, both let-elses: the page's records, None when the loop breaks.
fetched_models(r) ==
    LET res == fetch_text(r)
    IN  IF IsSome(res) THEN from_str(Unwrap(res)) ELSE None

\* The page put in front of the accumulator instead of behind it.
append_page_prepend(sink, ms, fetched) == fetched \o ms

\* A failed send making the loop skip the page.
append_page_unless_closed(sink, ms, fetched) ==
    IF sink = "closed" THEN ms ELSE ms \o fetched

\* build_cache, the accumulator after a decoded page.  The progress loop
\* sends clones and drops send errors, so whatever the channel's state the
\* whole page is appended: models.append(&mut fetched_models).
append_page(sink, ms, fetched) == ms \o fetched

\* The loop publishing every page into self.models as it arrives.
snapshot_in_loop_incremental(held, fetched) ==
    IF IsSome(held) THEN Some(Unwrap(held) \o fetched) ELSE Some(fetched)

\* build_cache takes &self: while the loop runs, self.models stays what it was.
snapshot_in_loop(held, fetched) == held

\* The loop skipping a page after a decoded one.
next_page_skip(p) == p + 2

\* build_cache, the page requested after a decoded page: page += 1.
next_page(p) == p + 1

\* The progress loop sending the first record of the page only.
send_all_first_only(sink, got, fetched) ==
    IF sink = "open" /\ fetched # <<>> THEN Append(got, Head(fetched)) ELSE got

\* build_cache, the progress loop: what the receiver has got after the page.
\* Without a channel nothing is sent; on a channel whose receiver is gone
\* every send fails and .ok() drops the error.
send_all(sink, got, fetched) == IF sink = "open" THEN got \o fetched ELSE got

\* build_cache without its emptiness test.
build_cache_always_some(ms) == Some(ms)

\* build_cache's value once the loop is left.
build_cache(ms) == IF ms # <<>> THEN Some(ms) ELSE None

\* ------------------------------------------------------------------ refresh
\* The file-system answers to the persistence step: all succeed, create_dir_all
\* fails, serialisation fails, fs::write fails before or after truncating.
IoOutcomes == {"ok", "mkdir", "ser", "create", "partial"}

\* update_cache_with_progress, the persistence step on the snapshot `ms`: the
\* files afterwards and how it went.  Each `?` leaves with nothing written;
\* fs::write truncates the file before it writes, so a write that fails
\* midway leaves a file that is no JSON array.
persist(c, ms, io) ==
    LET path == OrElse(cache_path[c], default_cache_path)
    IN  IF ~IsSome(path) THEN [fs |-> fs, how |-> "nopath"]
        ELSE IF io \in {"mkdir", "ser", "create"} THEN [fs |-> fs, how |-> "failed"]
        ELSE IF io = "partial"
        THEN [fs |-> Upd(fs, Unwrap(path), Some(File(Garbage, now))),
              how |-> "partial"]
        ELSE [fs |-> Upd(fs, Unwrap(path), Some(File(to_string_pretty(ms), now))),
              how |-> "ok"]

\* The value returned being Some only after a write, as the older
\* update_cache of main.rs reports it.
returned_only_written(new, how) == IF how = "ok" THEN new ELSE None

\* update_cache_with_progress, the value returned once build_cache gave
\* Some: self.models.clone(), unless a `?` of the persistence step left early.
returned(new, how) == IF how \in {"skipped", "ok"} THEN new ELSE None

\* update_cache_with_progress assigning self.models only after the persistence
\* step went through.
update_cache_with_progress_write_first(c, built, io) ==
    IF ~IsSome(built)
    THEN [models |-> models[c], fs |-> fs, ret |-> None, persisted |-> ""]
    ELSE LET new == Some(Unwrap(built))
             p == IF write_to_disk[c] THEN persist(c, Unwrap(new), io)
                  ELSE [fs |-> fs, how |-> "skipped"]
         IN  [models |-> IF p.how \in {"skipped", "ok"} THEN new ELSE models[c],
              fs |-> p.fs, ret |-> returned(new, p.how), persisted |-> p.how]

\* update_cache_with_progress persisting whatever write_to_disk says.
update_cache_with_progress_always_write(c, built, io) ==
    IF ~IsSome(built)
    THEN [models |-> models[c], fs |-> fs, ret |-> None, persisted |-> ""]
    ELSE LET new == Some(Unwrap(built))
             p == persist(c, Unwrap(new), io)
         IN  [models |-> new, fs |-> p.fs, ret |-> returned(new, p.how),
              persisted |-> p.how]

\* update_cache_with_progress after build_cache returned `built`: the client's
\* snapshot, the files, the returned value and how persistence went.
update_cache_with_progress(c, built, io) ==
    IF ~IsSome(built)
    THEN [models |-> models[c], fs |-> fs, ret |-> None, persisted |-> ""]
    ELSE LET new == Some(Unwrap(built))
             p == IF write_to_disk[c] THEN persist(c, Unwrap(new), io)
                  ELSE [fs |-> fs, how |-> "skipped"]
         IN  [models |-> new, fs |-> p.fs, ret |-> returned(new, p.how),
              persisted |-> p.how]

\* ------------------------------------------------------------------ bytes
\* The bytes of a text, for the steps of fs::write that work on bytes.  A
\* text that came out of such a step and is not the pretty-printed array of
\* its objects keeps its bytes in a field `raw`.

\* The keys of an object in the order to_string_pretty writes them: the order
\* of the struct's fields.
KeyOrder == <<"createdAt", "created_at", "name", "owner", "private", "tags">>

\* xs[1] sep xs[2] sep ... xs[n]
RECURSIVE Join(_, _)
Join(xs, sep) ==
    IF xs = <<>> THEN ""
    ELSE IF Len(xs) = 1 THEN xs[1]
    ELSE xs[1] \o sep \o Join(Tail(xs), sep)

\* serde_json's PrettyFormatter on a string, a bool and a list of strings that
\* is a field of an object of the array: two spaces for each level, an empty
\* list as [].
PrettyString(s) == "\"" \o s \o "\""
PrettyBool(b) == IF b THEN "true" ELSE "false"
PrettyTags(ts) ==
    IF ts = <<>> THEN "[]"
    ELSE "[\n" \o Join([i \in 1..Len(ts) |-> "      " \o PrettyString(ts[i])], ",\n")
              \o "\n    ]"

PrettyValue(k, v) ==
    IF k = "private" THEN PrettyBool(v)
    ELSE IF k = "tags" THEN PrettyTags(v)
    ELSE PrettyString(v)

\* The keys an object has, in writing order.
RECURSIVE KeysOf(_, _)
KeysOf(w, ks) ==
    IF ks = <<>> THEN <<>>
    ELSE (IF Head(ks) \in DOMAIN w THEN <<Head(ks)>> ELSE <<>>) \o KeysOf(w, Tail(ks))

PrettyObject(w) ==
    LET ks == KeysOf(w, KeyOrder)
    IN  "  {\n"
          \o Join([i \in 1..Len(ks) |->
                     "    " \o PrettyString(ks[i]) \o ": " \o PrettyValue(ks[i], w[ks[i]])],
                  ",\n")
          \o "\n  }"

\* The pretty-printed array of the objects.
PrettyArray(ws) ==
    IF ws = <<>> THEN "[]"
    ELSE "[\n" \o Join([i \in 1..Len(ws) |-> PrettyObject(ws[i])], ",\n") \o "\n]"

\* The bytes of a text.
Bytes(text) == IF "raw" \in DOMAIN text THEN text.raw ELSE PrettyArray(text.items)

\* The zero byte of a hole in a file.  It stands as the form feed, which like
\* it is a control character and no whitespace of JSON, and which no text has.
Nul == "\f"

\* The byte at offset i (from 1), "" beyond the end.
Byte(s, i) == IF i >= 1 /\ i <= Len(s) THEN SubSeq(s, i, i) ELSE ""

\* Whether the bytes from offset i on begin with the word.
StartsWith(s, i, word) ==
    i + Len(word) - 1 <= Len(s) /\ SubSeq(s, i, i + Len(word) - 1) = word

\* serde_json's parser on the bytes: a value is a string, true, false, an
\* array or an object; these are all the texts written by to_string_pretty
\* hold.  A parse gives [ok, v, i]: whether it went through, the value as
\* [t |-> its type, v |-> its content], the offset behind it.
NoParse == [ok |-> FALSE, v |-> <<>>, i |-> 0]

\* The offset of the first byte at or after i that is no whitespace.
RECURSIVE SkipWs(_, _)
SkipWs(s, i) == IF Byte(s, i) \in {" ", "\n"} THEN SkipWs(s, i + 1) ELSE i

\* The offset of the quote that closes the string whose content begins at i;
\* 0 when there is none or a line break or a zero byte comes first (a control
\* character must be escaped inside a string).
RECURSIVE StringEnd(_, _)
StringEnd(s, i) ==
    IF i > Len(s) \/ Byte(s, i) \in {"\n", Nul} THEN 0
    ELSE IF Byte(s, i) = "\"" THEN i
    ELSE StringEnd(s, i + 1)

RECURSIVE ParseValue(_, _)
RECURSIVE ParseElements(_, _, _)
RECURSIVE ParseMembers(_, _, _)

\* The elements of an array from offset i (at the first byte of an element)
\* up to its closing bracket.
ParseElements(s, i, got) ==
    LET e == ParseValue(s, i)
        j == SkipWs(s, e.i)
    IN  IF ~e.ok THEN NoParse
        ELSE IF Byte(s, j) = "," THEN ParseElements(s, SkipWs(s, j + 1), Append(got, e.v))
        ELSE IF Byte(s, j) = "]"
        THEN [ok |-> TRUE, v |-> [t |-> "array", v |-> Append(got, e.v)], i |-> j + 1]
        ELSE NoParse

\* The members of an object from offset i (at the quote of a key) up to its
\* closing brace.
ParseMembers(s, i, got) ==
    LET k == IF Byte(s, i) = "\"" THEN StringEnd(s, i + 1) ELSE 0
        colon == SkipWs(s, k + 1)
        e == ParseValue(s, SkipWs(s, colon + 1))
        j == SkipWs(s, e.i)
        member == [k |-> SubSeq(s, i + 1, k - 1), v |-> e.v]
    IN  IF k = 0 \/ Byte(s, colon) # ":" THEN NoParse
        ELSE IF ~e.ok THEN NoParse
        ELSE IF Byte(s, j) = "," THEN ParseMembers(s, SkipWs(s, j + 1), Append(got, member))
        ELSE IF Byte(s, j) = "}"
        THEN [ok |-> TRUE, v |-> [t |-> "object", v |-> Append(got, member)], i |-> j + 1]
        ELSE NoParse

\* The value that begins at offset i.
ParseValue(s, i) ==
    LET b == Byte(s, i)
        end == StringEnd(s, i + 1)
        first == SkipWs(s, i + 1)
    IN  IF b = "\""
        THEN IF end = 0 THEN NoParse
             ELSE [ok |-> TRUE, v |-> [t |-> "string", v |-> SubSeq(s, i + 1, end - 1)],
                   i |-> end + 1]
        ELSE IF StartsWith(s, i, "true")
        THEN [ok |-> TRUE, v |-> [t |-> "bool", v |-> TRUE], i |-> i + 4]
        ELSE IF StartsWith(s, i, "false")
        THEN [ok |-> TRUE, v |-> [t |-> "bool", v |-> FALSE], i |-> i + 5]
        ELSE IF b = "["
        THEN IF Byte(s, first) = "]"
             THEN [ok |-> TRUE, v |-> [t |-> "array", v |-> <<>>], i |-> first + 1]
             ELSE ParseElements(s, first, <<>>)
        ELSE IF b = "{"
        THEN IF Byte(s, first) = "}"
             THEN [ok |-> TRUE, v |-> [t |-> "object", v |-> <<>>], i |-> first + 1]
             ELSE ParseMembers(s, first, <<>>)
        ELSE NoParse

\* The whole of the bytes as one value: nothing but whitespace around it.
ParseDocument(s) ==
    LET e == ParseValue(s, SkipWs(s, 1))
    IN  IF e.ok /\ SkipWs(s, e.i) = Len(s) + 1 THEN e ELSE NoParse

\* The type Deserialize for FuelModel expects under a key.
KnownKeys == {"createdAt", "name", "owner", "private", "tags"}
TypeOf(k) == IF k = "private" THEN "bool" ELSE IF k = "tags" THEN "array" ELSE "string"

\* Whether a value is what the field under the key takes.
Fits(k, v) ==
    /\ v.t = TypeOf(k)
    /\ k = "tags" => \A i \in 1..Len(v.v) : v.v[i].t = "string"

\* The content of a value of a field.
Content(k, v) == IF k = "tags" THEN [i \in 1..Len(v.v) |-> v.v[i].v] ELSE v.v

\* Whether a parsed value is an object the derived Deserialize reads through:
\* no known key twice, every known key with a value of its type; unknown keys
\* are skipped.  (Which keys are required is DeFuelModel's matter.)
Readable(o) ==
    /\ o.t = "object"
    /\ \A i \in 1..Len(o.v) :
         o.v[i].k \in KnownKeys =>
             /\ Fits(o.v[i].k, o.v[i].v)
             /\ \A j \in 1..Len(o.v) : o.v[j].k = o.v[i].k => j = i

\* The key/value map of a readable object.
WireObject(o) ==
    LET at(k) == CHOOSE i \in 1..Len(o.v) : o.v[i].k = k
    IN  [k \in {o.v[i].k : i \in 1..Len(o.v)} \cap KnownKeys |-> Content(k, o.v[at(k)].v)]

\* The text a file of these bytes is: the array of its objects when the bytes
\* are one, with the bytes kept unless they are the array's pretty print.
Text(s) ==
    LET d == ParseDocument(s)
        isArray == d.ok /\ d.v.t = "array" /\ \A i \in 1..Len(d.v.v) : Readable(d.v.v[i])
        ws == [i \in 1..Len(d.v.v) |-> WireObject(d.v.v[i])]
    IN  IF ~isArray THEN [json |-> FALSE, items |-> <<>>, raw |-> s]
        ELSE IF PrettyArray(ws) = s THEN JsonArray(ws)
        ELSE [json |-> TRUE, items |-> ws, raw |-> s]

\* n zero bytes.
RECURSIVE Nuls(_)
Nuls(n) == IF n <= 0 THEN "" ELSE Nul \o Nuls(n - 1)

\* What a file that holds `existing` holds once `buf` has been written at
\* offset `off` (counted from 0): what lay before the offset, with zero bytes
\* up to it where the file was shorter, then `buf`, then whatever lay beyond.
WrittenAt(existing, off, buf) ==
    (IF Len(existing) < off
     THEN existing \o Nuls(off - Len(existing))
     ELSE SubSeq(existing, 1, off))
      \o buf
      \o SubSeq(existing, off + Len(buf) + 1, Len(existing))

\* ------------------------------------------------------------------ fs::write
\* fs::write(path, bytes) is File::create(path), which truncates the file,
\* and then write_all(bytes) from offset 0.  A client on its own has nothing
\* running between the two, and `persist` takes them at once; clients on
\* different threads take them one by one.

\* An empty file.
Truncated == [json |-> FALSE, items |-> <<>>, raw |-> ""]

\* The size of a text in bytes.
TextSize(text) == Len(Bytes(text))

\* File::create without O_TRUNC: the bytes stay.
file_create_keep(p) ==
    Upd(fs, p, Some(File(IF IsSome(fs[p]) THEN Unwrap(fs[p]).bytes ELSE Truncated, now)))

\* File::create(path): the file is there and empty.
file_create(p) == Upd(fs, p, Some(File(Truncated, now)))

\* One write call of write_all(bytes) on a file that holds `existing`, by a
\* handle that has written `off` bytes of the text: the next k bytes go to
\* the handle's offset.
write(existing, text, off, k) ==
    Text(WrittenAt(Bytes(existing), off, SubSeq(Bytes(text), off + 1, off + k)))

\* How a write call of write_all may go: it takes the whole of what is left
\* of the buffer, it takes a part and write_all calls again, or it fails and
\* write_all gives the error.
WriteOutcomes == {"ok", "short", "partial"}

\* ------------------------------------------------------------------ queries
\* A wire object whose owner differs from W2's only in letter case and whose
\* tags repeat W1's tag in another case.
W4 == [createdAt |-> "t4", name |-> "jar", owner |-> "Alice", private |-> FALSE,
       tags |-> <<"Robot", "arm">>]

\* The records snapshots are made of in the query layer.
QueryPool == {Unwrap(DeFuelModel(w)) : w \in {W1, W2, W4}}

\* The UTF-8 bytes of the strings that occur as owners and tags.
Chars ==
    [Bob   |-> <<66, 111, 98>>,
     alice |-> <<97, 108, 105, 99, 101>>,
     Alice |-> <<65, 108, 105, 99, 101>>,
     robot |-> <<114, 111, 98, 111, 116>>,
     Robot |-> <<82, 111, 98, 111, 116>>,
     arm   |-> <<97, 114, 109>>]

\* str::to_lowercase: A..Z become a..z, the other bytes stay.
to_lowercase(bs) ==
    [i \in 1..Len(bs) |-> IF bs[i] >= 65 /\ bs[i] <= 90 THEN bs[i] + 32 ELSE bs[i]]

\* Ord::cmp for String: lexicographic on the bytes, a proper prefix being less.
RECURSIVE cmp(_, _)
cmp(a, b) ==
    IF a = <<>> /\ b = <<>> THEN "Equal"
    ELSE IF a = <<>> THEN "Less"
    ELSE IF b = <<>> THEN "Greater"
    ELSE IF Head(a) < Head(b) THEN "Less"
    ELSE IF Head(a) > Head(b) THEN "Greater"
    ELSE cmp(Tail(a), Tail(b))

\* The sort comparing the strings as they are, upper case before lower case.
sort_key_raw(s) == Chars[s]

\* get_owners / get_tags, what the comparator of sorted_by compares:
\* a.to_lowercase().
sort_key(s) == to_lowercase(Chars[s])

\* The comparator of sorted_by: a.to_lowercase().cmp(&b.to_lowercase()).
compare(a, b) == cmp(sort_key(a), sort_key(b))

\* The step of a stable sort: x goes behind every element that does not
\* compare greater than it.
RECURSIVE insert_sorted(_, _)
insert_sorted(sorted, x) ==
    IF sorted = <<>> THEN <<x>>
    ELSE IF compare(Head(sorted), x) # "Greater"
         THEN <<Head(sorted)>> \o insert_sorted(Tail(sorted), x)
         ELSE <<x>> \o sorted

\* Itertools::sorted_by: a stable sort (Vec::sort_by) under `compare`.
RECURSIVE sorted_by(_)
sorted_by(xs) ==
    IF xs = <<>> THEN <<>>
    ELSE insert_sorted(sorted_by(SubSeq(xs, 1, Len(xs) - 1)), xs[Len(xs)])

\* Deduplication on the lower-cased string, one spelling kept for each.
unique_key_folded(s) == to_lowercase(Chars[s])

\* Itertools::unique_by(|model| &model.owner) and unique(): the key two
\* elements are the same by, the string itself.
unique_key(s) == Chars[s]

\* Itertools::unique / unique_by: every element whose key no earlier element
\* has, in the order met.
unique(xs) ==
    LET marked == [i \in 1..Len(xs) |->
                     [x |-> xs[i],
                      first |-> \A j \in 1..(i - 1) :
                                   unique_key(xs[j]) # unique_key(xs[i])]]
        kept == SelectSeq(marked, LAMBDA e : e.first)
    IN  [i \in 1..Len(kept) |-> kept[i].x]

\* flat_map(|model| &model.tags): the records' tags, one after the other.
RECURSIVE flat_map_tags(_)
flat_map_tags(ms) ==
    IF ms = <<>> THEN <<>> ELSE Head(ms).tags \o flat_map_tags(Tail(ms))

\* The held snapshot taking precedence over the one supplied.
snapshot_or_held_first(supplied, held) == OrElse(held, supplied)

\* models.or(self.models.as_ref()): the snapshot supplied, else the one held.
snapshot_or(supplied, held) == OrElse(supplied, held)

\* The owner compared without regard to letter case.
owner_matches_ignore_case(m, owner) ==
    to_lowercase(Chars[m.owner]) = to_lowercase(Chars[owner])

\* models_by_owner, the filter's closure: model.owner == owner.
owner_matches(m, owner) == m.owner = owner

\* models_by_private, the filter's closure: model.private == private.
private_matches(m, private) == m.private = private

\* models_by_tag, the filter's closure: model.tags.contains(&tag.to_owned()).
tag_matches(m, tag) == \E i \in 1..Len(m.tags) : m.tags[i] = tag

\* models_by_owner(&self, models, owner)
models_by_owner(c, supplied, owner) ==
    LET ms == snapshot_or(supplied, models[c])
    IN  IF ~IsSome(ms) THEN None
        ELSE Some(SelectSeq(Unwrap(ms), LAMBDA m : owner_matches(m, owner)))

\* models_by_private(&self, models, private)
models_by_private(c, supplied, private) ==
    LET ms == snapshot_or(supplied, models[c])
    IN  IF ~IsSome(ms) THEN None
        ELSE Some(SelectSeq(Unwrap(ms), LAMBDA m : private_matches(m, private)))

\* models_by_tag(&self, models, tag)
models_by_tag(c, supplied, tag) ==
    LET ms == snapshot_or(supplied, models[c])
    IN  IF ~IsSome(ms) THEN None
        ELSE Some(SelectSeq(Unwrap(ms), LAMBDA m : tag_matches(m, tag)))

\* get_owners(&self): it takes no snapshot, it reads self.models.
get_owners(c) ==
    IF ~IsSome(models[c]) THEN None
    ELSE LET owners == [i \in 1..Len(Unwrap(models[c])) |-> Unwrap(models[c])[i].owner]
         IN  Some(sorted_by(unique(owners)))

\* get_tags(&self): it takes no snapshot, it reads self.models.
get_tags(c) ==
    IF ~IsSome(models[c]) THEN None
    ELSE Some(sorted_by(unique(flat_map_tags(Unwrap(models[c])))))

\* ------------------------------------------------------------------ initial state
NoObs == [op |-> "none"]

\* The cache files a run may start with: none, one that is no JSON array, an
\* empty array, an array of one record written without its "tags" key, an
\* array whose object lacks a required key.
InitBytes == {Garbage, JsonArray(<<>>), JsonArray(<<W2>>), JsonArray(<<W3>>)}
InitFiles == {None} \cup {Some(File(b, MaxTime - 1)) : b \in InitBytes}
\* The same, of every age.
StaleFiles == {None} \cup {Some(File(b, t)) : b \in InitBytes, t \in 0..MaxTime}

\* FuelClient::default(): the empty client, then with_cache(None), the cache
\* file being one of `files`.
InitWith(files) ==
    /\ clients = {"a"}
    /\ cache_dir \in BOOLEAN
    /\ now = 0
    /\ arg_models = None
    /\ wlog = <<>>
    /\ written = [c \in Clients |-> 0]
    /\ shorts = 0
    /\ fs \in [Paths -> files]
    /\ \E io_ok \in BOOLEAN :
         /\ models = [c \in Clients |->
                        IF c = "a" /\ cache_dir THEN load("cache", io_ok) ELSE None]
         /\ cache_path = [c \in Clients |->
                            IF c = "a" /\ cache_dir THEN Some("cache") ELSE None]
    /\ pc = [c \in Clients |-> "idle"]
    /\ page = [c \in Clients |-> 1]
    /\ acc = [c \in Clients |-> <<>>]
    /\ write_to_disk = [c \in Clients |-> FALSE]
    /\ progress = [c \in Clients |-> "none"]
    /\ sent = [c \in Clients |-> <<>>]
    /\ requested = [c \in Clients |-> <<>>]
    /\ served = [c \in Clients |-> <<>>]
    /\ answered = [c \in Clients |-> 0]
    /\ empties = [c \in Clients |-> 0]
    /\ persisted = [c \in Clients |-> ""]
    /\ before = [c \in Clients |-> None]
    /\ result = [c \in Clients |-> None]
    /\ obs = NoObs

Init == InitWith(InitFiles)

\* ------------------------------------------------------------------ actions
\* update_cache_with_progress is entered: build_cache sets page = 1 and an
\* empty accumulator, requests page 1 and suspends on the fetch.  The call
\* borrows the client mutably, so it has no other call in flight.
StartRefresh(c, w, sink) ==
    /\ c \in clients
    /\ pc[c] = "idle"
    /\ pc' = Upd(pc, c, "fetching")
    /\ page' = Upd(page, c, 1)
    /\ acc' = Upd(acc, c, <<>>)
    /\ write_to_disk' = Upd(write_to_disk, c, w)
    /\ progress' = Upd(progress, c, sink)
    /\ sent' = Upd(sent, c, <<>>)
    /\ requested' = Upd(requested, c, <<1>>)
    /\ served' = Upd(served, c, <<>>)
    /\ answered' = Upd(answered, c, 0)
    /\ empties' = Upd(empties, c, 0)
    /\ persisted' = Upd(persisted, c, "")
    /\ before' = Upd(before, c, models[c])
    /\ result' = Upd(result, c, None)
    /\ obs' = NoObs
    /\ UNCHANGED <<client_vars, env_vars>>

\* The awaited page decodes: its records go to the progress channel and to the
\* accumulator, and the next page is requested.
PageDecoded(c, r) ==
    LET fetched == Unwrap(fetched_models(r))
    IN  /\ c \in clients
        /\ pc[c] = "fetching"
        /\ IsSome(fetched_models(r))
        /\ answered[c] < MaxPages
        /\ sent' = Upd(sent, c, send_all(progress[c], sent[c], fetched))
        /\ acc' = Upd(acc, c, append_page(progress[c], acc[c], fetched))
        /\ models' = Upd(models, c, snapshot_in_loop(models[c], fetched))
        /\ page' = Upd(page, c, next_page(page[c]))
        /\ requested' = Upd(requested, c, Append(requested[c], next_page(page[c])))
        /\ served' = Upd(served, c, served[c] \o r.text.items)
        /\ answered' = Upd(answered, c, answered[c] + 1)
        /\ empties' = Upd(empties, c, empties[c] + IF r.text.items = <<>> THEN 1 ELSE 0)
        /\ obs' = NoObs
        /\ UNCHANGED <<clients, cache_path, env_vars, pc, write_to_disk, progress,
                       persisted, before, result>>

\* The awaited page fails (transport, UTF-8 or decode): the loop breaks,
\* build_cache returns, and update_cache_with_progress runs to its end.
PageFailed(c, r, io) ==
    LET out == update_cache_with_progress(c, build_cache(acc[c]), io)
    IN  /\ c \in clients
        /\ pc[c] = "fetching"
        /\ ~IsSome(fetched_models(r))
        /\ io # "ok" => write_to_disk[c] /\ acc[c] # <<>>
        /\ models' = Upd(models, c, out.models)
        /\ fs' = out.fs
        /\ result' = Upd(result, c, out.ret)
        /\ persisted' = Upd(persisted, c, out.persisted)
        /\ pc' = Upd(pc, c, "done")
        /\ obs' = NoObs
        /\ UNCHANGED <<clients, cache_path, cache_dir, now, arg_models, wlog, written,
                       shorts, page, acc,
                       write_to_disk, progress, sent, requested, served, answered,
                       empties, before>>

\* The caller takes the returned value and the call's frame is gone.
Return(c) ==
    /\ c \in clients
    /\ pc[c] = "done"
    /\ pc' = Upd(pc, c, "idle")
    /\ page' = Upd(page, c, 1)
    /\ acc' = Upd(acc, c, <<>>)
    /\ write_to_disk' = Upd(write_to_disk, c, FALSE)
    /\ progress' = Upd(progress, c, "none")
    /\ sent' = Upd(sent, c, <<>>)
    /\ requested' = Upd(requested, c, <<>>)
    /\ served' = Upd(served, c, <<>>)
    /\ answered' = Upd(answered, c, 0)
    /\ empties' = Upd(empties, c, 0)
    /\ persisted' = Upd(persisted, c, "")
    /\ before' = Upd(before, c, None)
    /\ result' = Upd(result, c, None)
    /\ obs' = NoObs
    /\ UNCHANGED <<client_vars, env_vars>>

\* client = client.with_cache(path)
WithCache(c, path, io_ok) ==
    LET out == with_cache(c, path, io_ok)
    IN  /\ c \in clients
        /\ pc[c] = "idle"
        /\ models' = Upd(models, c, out.models)
        /\ cache_path' = Upd(cache_path, c, out.cache_path)
        /\ obs' = [op |-> "with_cache", client |-> c, path |-> path, io_ok |-> io_ok,
                   held |-> models[c], had_path |-> cache_path[c]]
        /\ UNCHANGED <<clients, call_vars, env_vars>>

\* client.should_update_cache(&threshold)
ShouldUpdateCache(c, threshold, io_ok) ==
    /\ c \in clients
    /\ pc[c] = "idle"
    /\ obs' = [op |-> "should_update_cache", client |-> c, threshold |-> threshold,
               io_ok |-> io_ok,
               value |-> should_update_cache(last_updated(c, io_ok), threshold, now)]
    /\ UNCHANGED <<client_vars, call_vars, env_vars>>

\* client.clone()
Clone(c, d) ==
    /\ c \in clients
    /\ d \notin clients
    /\ pc[c] = "idle"
    /\ clients' = clients \cup {d}
    /\ models' = Upd(models, d, models[c])
    /\ cache_path' = Upd(cache_path, d, cache_path[c])
    /\ obs' = NoObs
    /\ UNCHANGED <<call_vars, env_vars>>

\* Time passes.
Tick ==
    /\ now < MaxTime
    /\ now' = now + 1
    /\ obs' = NoObs
    /\ UNCHANGED <<client_vars, call_vars, fs, cache_dir, arg_models, wlog, written,
                   shorts>>

\* client.models_by_owner(arg_models, owner)
ModelsByOwner(c, owner) ==
    /\ c \in clients
    /\ pc[c] = "idle"
    /\ obs' = [op |-> "models_by_owner", client |-> c, supplied |-> arg_models,
               held |-> models[c], arg |-> owner,
               value |-> models_by_owner(c, arg_models, owner)]
    /\ UNCHANGED <<client_vars, call_vars, env_vars>>

\* client.models_by_private(arg_models, private)
ModelsByPrivate(c, private) ==
    /\ c \in clients
    /\ pc[c] = "idle"
    /\ obs' = [op |-> "models_by_private", client |-> c, supplied |-> arg_models,
               held |-> models[c], arg |-> private,
               value |-> models_by_private(c, arg_models, private)]
    /\ UNCHANGED <<client_vars, call_vars, env_vars>>

\* client.models_by_tag(arg_models, tag)
ModelsByTag(c, tag) ==
    /\ c \in clients
    /\ pc[c] = "idle"
    /\ obs' = [op |-> "models_by_tag", client |-> c, supplied |-> arg_models,
               held |-> models[c], arg |-> tag,
               value |-> models_by_tag(c, arg_models, tag)]
    /\ UNCHANGED <<client_vars, call_vars, env_vars>>

\* client.get_owners()
GetOwners(c) ==
    /\ c \in clients
    /\ pc[c] = "idle"
    /\ obs' = [op |-> "get_owners", client |-> c, supplied |-> None,
               held |-> models[c], value |-> get_owners(c)]
    /\ UNCHANGED <<client_vars, call_vars, env_vars>>

\* client.get_tags()
GetTags(c) ==
    /\ c \in clients
    /\ pc[c] = "idle"
    /\ obs' = [op |-> "get_tags", client |-> c, supplied |-> None,
               held |-> models[c], value |-> get_tags(c)]
    /\ UNCHANGED <<client_vars, call_vars, env_vars>>

\* The awaited page fails on a thread of its own: the loop breaks and
\* update_cache_with_progress runs up to fs::write, or to its end when it does
\* not get that far.
PageFailedWrite(c, r, io) ==
    LET out == update_cache_with_progress(c, build_cache(acc[c]), io)
        writes == out.persisted = "ok"
    IN  /\ c \in clients
        /\ pc[c] = "fetching"
        /\ ~IsSome(fetched_models(r))
        /\ io \in {"ok", "mkdir", "ser"}
        /\ io # "ok" => write_to_disk[c] /\ acc[c] # <<>>
        /\ models' = Upd(models, c, out.models)
        /\ IF writes
           THEN /\ pc' = Upd(pc, c, "creating")
                /\ UNCHANGED <<result, persisted>>
           ELSE /\ result' = Upd(result, c, out.ret)
                /\ persisted' = Upd(persisted, c, out.persisted)
                /\ pc' = Upd(pc, c, "done")
        /\ obs' = NoObs
        /\ UNCHANGED <<clients, cache_path, env_vars, page, acc, write_to_disk, progress,
                       sent, requested, served, answered, empties, before>>

\* File::create inside fs::write: the file is truncated and the handle is at
\* offset 0, or the call fails and update_cache_with_progress returns None.
FileCreate(c, io) ==
    LET p == Unwrap(OrElse(cache_path[c], default_cache_path))
        how == persist(c, Unwrap(models[c]), io).how
    IN  /\ c \in clients
        /\ pc[c] = "creating"
        /\ io \in {"ok", "create"}
        /\ IF io = "ok"
           THEN /\ fs' = file_create(p)
                /\ wlog' = Append(wlog, [client |-> c, step |-> "create"])
                /\ written' = Upd(written, c, 0)
                /\ pc' = Upd(pc, c, "writing")
                /\ UNCHANGED <<result, persisted>>
           ELSE /\ result' = Upd(result, c, returned(models[c], how))
                /\ persisted' = Upd(persisted, c, how)
                /\ pc' = Upd(pc, c, "done")
                /\ UNCHANGED <<fs, wlog, written>>
        /\ obs' = NoObs
        /\ UNCHANGED <<client_vars, cache_dir, now, arg_models, shorts, page, acc,
                       write_to_disk, progress, sent, requested, served, answered,
                       empties, before>>

\* One turn of the loop of write_all inside fs::write: a write call on the
\* handle.  It takes all that is left of the text, and write_all and then
\* update_cache_with_progress return; or it takes k bytes of it, fewer than
\* are left, and the loop goes on; or it fails, and what was written stays.
Write(c, io, k) ==
    LET p == Unwrap(OrElse(cache_path[c], default_cache_path))
        text == to_string_pretty(Unwrap(models[c]))
        left == TextSize(text) - written[c]
        taken == IF io = "ok" THEN left ELSE k
    IN  /\ c \in clients
        /\ pc[c] = "writing"
        /\ io \in WriteOutcomes
        /\ io # "short" => k = 0
        /\ io = "short" =>
             /\ shorts < MaxShortWrites
             /\ k >= 1
             /\ k < left
             /\ written[c] + k <= MaxCut
        /\ IF io = "partial"
           THEN UNCHANGED fs
           ELSE fs' = Upd(fs, p, Some(File(write(Unwrap(fs[p]).bytes, text, written[c], taken),
                                           now)))
        /\ IF io = "short"
           THEN /\ written' = Upd(written, c, written[c] + k)
                /\ shorts' = shorts + 1
                /\ UNCHANGED <<pc, persisted, result, wlog>>
           ELSE /\ persisted' = Upd(persisted, c, io)
                /\ result' = Upd(result, c, returned(models[c], io))
                /\ pc' = Upd(pc, c, "done")
                /\ wlog' = IF io = "ok"
                           THEN Append(wlog, [client |-> c, step |-> "write"])
                           ELSE wlog
                /\ written' = Upd(written, c, 0)
                /\ UNCHANGED shorts
        /\ obs' = NoObs
        /\ UNCHANGED <<client_vars, cache_dir, now, arg_models, page, acc,
                       write_to_disk, progress, sent, requested, served, answered,
                       empties, before>>

Sinks == {"none", "open", "closed"}
Thresholds == {None} \cup {Some(d) : d \in 0..MaxTime}
OptPaths == {None} \cup {Some(p) : p \in Paths}

Refresh(c) ==
    \/ \E w \in BOOLEAN, sink \in Sinks : StartRefresh(c, w, sink)
    \/ \E r \in Responses(MaxRecords - Len(served[c])) : PageDecoded(c, r)
    \/ \E r \in Responses(1), io \in IoOutcomes : PageFailed(c, r, io)
    \/ Return(c)

Next ==
    \/ \E c \in Clients : Refresh(c)
    \/ \E c \in Clients, path \in OptPaths, io_ok \in BOOLEAN : WithCache(c, path, io_ok)
    \/ \E c \in Clients, threshold \in Thresholds, io_ok \in BOOLEAN :
         ShouldUpdateCache(c, threshold, io_ok)

Spec == Init /\ [][Next]_vars

\* The staleness test on its own: a client, a cache file of any age, the clock.
InitStale == InitWith(StaleFiles)

NextStale ==
    \/ \E c \in Clients, threshold \in Thresholds, io_ok \in BOOLEAN :
         ShouldUpdateCache(c, threshold, io_ok)
    \/ \E c \in Clients, path \in OptPaths, io_ok \in BOOLEAN : WithCache(c, path, io_ok)
    \/ Tick

SpecStale == InitStale /\ [][NextStale]_vars

\* The query layer on its own: a client that holds no snapshot or any snapshot
\* of at most MaxSnapshot records, and a caller that has none or any to supply.
Snapshots == SeqsUpTo(QueryPool, MaxSnapshot)
OptSnapshots == {None} \cup {Some(s) : s \in Snapshots}
Owners == {"Bob", "alice", "Alice"}
Tags == {"robot", "Robot", "arm"}

InitQuery ==
    /\ clients = {"a"}
    /\ cache_dir = FALSE
    /\ now = 0
    /\ fs = [p \in Paths |-> None]
    /\ arg_models \in OptSnapshots
    /\ wlog = <<>>
    /\ written = [c \in Clients |-> 0]
    /\ shorts = 0
    /\ models \in {[c \in Clients |-> IF c = "a" THEN held ELSE None] :
                     held \in OptSnapshots}
    /\ cache_path = [c \in Clients |-> None]
    /\ pc = [c \in Clients |-> "idle"]
    /\ page = [c \in Clients |-> 1]
    /\ acc = [c \in Clients |-> <<>>]
    /\ write_to_disk = [c \in Clients |-> FALSE]
    /\ progress = [c \in Clients |-> "none"]
    /\ sent = [c \in Clients |-> <<>>]
    /\ requested = [c \in Clients |-> <<>>]
    /\ served = [c \in Clients |-> <<>>]
    /\ answered = [c \in Clients |-> 0]
    /\ empties = [c \in Clients |-> 0]
    /\ persisted = [c \in Clients |-> ""]
    /\ before = [c \in Clients |-> None]
    /\ result = [c \in Clients |-> None]
    /\ obs = NoObs

NextQuery ==
    \/ \E c \in Clients, owner \in Owners : ModelsByOwner(c, owner)
    \/ \E c \in Clients, private \in BOOLEAN : ModelsByPrivate(c, private)
    \/ \E c \in Clients, tag \in Tags : ModelsByTag(c, tag)
    \/ \E c \in Clients : GetOwners(c)
    \/ \E c \in Clients : GetTags(c)

SpecQuery == InitQuery /\ [][NextQuery]_vars

\* Two instances on two threads: a client with a cache path, its clone, and
\* one persisting refresh of each, the steps of fs::write taken one by one.
InitClones ==
    /\ clients = {"a"}
    /\ cache_dir = TRUE
    /\ now = 0
    /\ arg_models = None
    /\ wlog = <<>>
    /\ written = [c \in Clients |-> 0]
    /\ shorts = 0
    /\ fs \in [Paths -> {None, Some(File(JsonArray(<<W2>>), 0))}]
    /\ models = [c \in Clients |-> IF c = "a" THEN load("cache", TRUE) ELSE None]
    /\ cache_path = [c \in Clients |-> IF c = "a" THEN Some("cache") ELSE None]
    /\ pc = [c \in Clients |-> "idle"]
    /\ page = [c \in Clients |-> 1]
    /\ acc = [c \in Clients |-> <<>>]
    /\ write_to_disk = [c \in Clients |-> FALSE]
    /\ progress = [c \in Clients |-> "none"]
    /\ sent = [c \in Clients |-> <<>>]
    /\ requested = [c \in Clients |-> <<>>]
    /\ served = [c \in Clients |-> <<>>]
    /\ answered = [c \in Clients |-> 0]
    /\ empties = [c \in Clients |-> 0]
    /\ persisted = [c \in Clients |-> ""]
    /\ before = [c \in Clients |-> None]
    /\ result = [c \in Clients |-> None]
    /\ obs = NoObs

\* build_cache and the assignment of self.models touch nothing the other
\* instance sees, so they commute with every step of the other: the instances
\* run them one after the other, in either order, and once both have got to
\* fs::write they take its steps in every interleaving.  How the transport
\* splits an instance's records into pages does not reach fs::write: it serves
\* them in one page.
InFsWrite == \A d \in clients : pc[d] \in {"creating", "writing", "done"}

NextClones ==
    \/ \E c, d \in Clients : Clone(c, d)
    \/ \E c \in Clients :
         /\ "b" \in clients
         /\ \A d \in Clients : pc[d] # "fetching"
         /\ StartRefresh(c, TRUE, "none")
    \/ \E c \in Clients :
         \E r \in Responses(MaxRecords) : answered[c] = 0 /\ PageDecoded(c, r)
    \/ \E c \in Clients, r \in Responses(1), io \in IoOutcomes : PageFailedWrite(c, r, io)
    \/ \E c \in Clients, io \in IoOutcomes : InFsWrite /\ FileCreate(c, io)
    \/ \E c \in Clients, io \in WriteOutcomes, k \in 0..MaxCut :
         InFsWrite /\ Write(c, io, k)

SpecClones == InitClones /\ [][NextClones]_vars

\* A client on a cache path where there is no file yet: its refreshes with the
\* steps of fs::write logged, its loads, its staleness tests and its queries.
InitFresh ==
    /\ clients = {"a"}
    /\ cache_dir = TRUE
    /\ now = 0
    /\ arg_models = None
    /\ wlog = <<>>
    /\ written = [c \in Clients |-> 0]
    /\ shorts = 0
    /\ fs = [p \in Paths |-> None]
    /\ models = [c \in Clients |-> None]
    /\ cache_path = [c \in Clients |-> IF c = "a" THEN Some("cache") ELSE None]
    /\ pc = [c \in Clients |-> "idle"]
    /\ page = [c \in Clients |-> 1]
    /\ acc = [c \in Clients |-> <<>>]
    /\ write_to_disk = [c \in Clients |-> FALSE]
    /\ progress = [c \in Clients |-> "none"]
    /\ sent = [c \in Clients |-> <<>>]
    /\ requested = [c \in Clients |-> <<>>]
    /\ served = [c \in Clients |-> <<>>]
    /\ answered = [c \in Clients |-> 0]
    /\ empties = [c \in Clients |-> 0]
    /\ persisted = [c \in Clients |-> ""]
    /\ before = [c \in Clients |-> None]
    /\ result = [c \in Clients |-> None]
    /\ obs = NoObs

NextFresh ==
    \/ \E c \in Clients, w \in BOOLEAN :
         Len(wlog) < MaxWriteSteps /\ StartRefresh(c, w, "none")
    \/ \E c \in Clients :
         \E r \in Responses(MaxRecords - Len(served[c])) : PageDecoded(c, r)
    \/ \E c \in Clients, io \in IoOutcomes : PageFailedWrite(c, FetchErr, io)
    \/ \E c \in Clients, io \in IoOutcomes : FileCreate(c, io)
    \/ \E c \in Clients, io \in WriteOutcomes, k \in 0..MaxCut : Write(c, io, k)
    \/ \E c \in Clients : Return(c)
    \/ \E c \in Clients, path \in OptPaths, io_ok \in BOOLEAN : WithCache(c, path, io_ok)
    \/ \E c \in Clients, threshold \in Thresholds, io_ok \in BOOLEAN :
         ShouldUpdateCache(c, threshold, io_ok)
    \/ \E c \in Clients : GetOwners(c)

SpecFresh == InitFresh /\ [][NextFresh]_vars

\* ------------------------------------------------------------------ staleness
\* The client has no cache metadata: no cache path, no file there, or a failed
\* open or metadata read.
NoMetadata(c, io_ok) ==
    \/ ~IsSome(cache_path[c])
    \/ ~IsSome(fs[Unwrap(cache_path[c])])
    \/ ~io_ok

\* The age of the client's cache file: now - last_modified.
Age(c) == now - Unwrap(fs[Unwrap(cache_path[c])]).mtime

Asked == obs.op = "should_update_cache"

\* C1: without cache metadata should_update_cache answers true, whatever the
\* threshold (absent or any duration).
C1_NoMetadataAlwaysDue ==
    Asked /\ NoMetadata(obs.client, obs.io_ok) => obs.value = TRUE

\* C1 happens: a client with a cache path but no file is asked with a duration
\* and with no threshold.
C1_Witness ==
    /\ Asked
    /\ IsSome(cache_path[obs.client])
    /\ ~IsSome(fs[Unwrap(cache_path[obs.client])])
    /\ ~IsSome(obs.threshold)
    /\ obs.value = TRUE

\* C2: with cache metadata of age a, should_update_cache is false without a
\* threshold and a > t with threshold t; a = t and a negative age give false.
C2_DueIffOlderThanThreshold ==
    Asked /\ ~NoMetadata(obs.client, obs.io_ok) =>
        obs.value = (IsSome(obs.threshold) /\ Age(obs.client) > Unwrap(obs.threshold))

\* C2 happens: the cache is exactly as old as the threshold, which is not zero,
\* and the answer is false.
C2_Witness ==
    /\ Asked
    /\ ~NoMetadata(obs.client, obs.io_ok)
    /\ IsSome(obs.threshold)
    /\ Unwrap(obs.threshold) > 0
    /\ Age(obs.client) = Unwrap(obs.threshold)
    /\ obs.value = FALSE


\* ------------------------------------------------------------------ refresh
\* What the transport's decodable pages hold, as records: p1 ++ p2 ++ ... ++ pk.
Decoded(ws) == [i \in 1..Len(ws) |-> Unwrap(DeFuelModel(ws[i]))]

PersistFailed(c) == persisted[c] \in {"nopath", "failed", "partial"}

\* C3: when the transport answered pages 1..k with decodable arrays holding at
\* least one record and then failed, the snapshot the refresh produced is the
\* pages' records in the order sent, none dropped, none twice.
C3_SnapshotIsConcatenation ==
    \A c \in Clients :
        pc[c] = "done" /\ served[c] # <<>> =>
            /\ models[c] = Some(Decoded(served[c]))
            /\ ~PersistFailed(c) => result[c] = Some(Decoded(served[c]))

\* C3 happens: two pages of one record each, W1 then W2, then a failure.
C3_Witness ==
    \E c \in Clients :
        /\ pc[c] = "done"
        /\ answered[c] = 2
        /\ empties[c] = 0
        /\ served[c] = <<W1, W2>>
        /\ result[c] = Some(Decoded(<<W1, W2>>))

\* C4: a refresh that leaves the loop with an empty accumulator returns None
\* and leaves the held snapshot alone; no refresh returns or installs
\* Some(empty list).
C4_EmptyIsFailure ==
    \A c \in Clients :
        pc[c] = "done" =>
            /\ acc[c] = <<>> => result[c] = None /\ models[c] = before[c]
            /\ result[c] # Some(<<>>)
            /\ models[c] # before[c] => models[c] # Some(<<>>)

\* C4 happens: the transport fails on page 1 of a client that held a snapshot.
C4_Witness ==
    \E c \in Clients :
        /\ pc[c] = "done"
        /\ requested[c] = <<1>>
        /\ acc[c] = <<>>
        /\ IsSome(before[c])
        /\ result[c] = None

\* C5: when a refresh that was to persist fetched a record and persistence
\* failed, the client holds the newly fetched snapshot.
C5_PersistFailureKeepsNewSnapshot ==
    \A c \in Clients :
        pc[c] = "done" /\ write_to_disk[c] /\ acc[c] # <<>> /\ PersistFailed(c) =>
            models[c] = Some(acc[c])

\* C5 happens: create_dir_all, serialisation or the file's creation failed, and
\* the snapshot held is the new one, which differs from the one held before.
C5_Witness ==
    \E c \in Clients :
        /\ pc[c] = "done"
        /\ persisted[c] = "failed"
        /\ IsSome(before[c])
        /\ before[c] # Some(acc[c])
        /\ models[c] = Some(acc[c])

\* C6 as claimed: whenever the loop accumulated a record the refresh returns
\* Some(accumulated), persistence failed or not.
C6_AlwaysReturnsSnapshot ==
    \A c \in Clients :
        pc[c] = "done" /\ acc[c] # <<>> => result[c] = Some(acc[c])

\* C6 amended: whenever the loop accumulated a record the refresh returns
\* Some(accumulated) if persistence was not requested or succeeded; if it was
\* requested and failed the refresh returns None, the client holding the
\* accumulated snapshot all the same.
C6_ReturnsSnapshotUnlessPersistFailed ==
    \A c \in Clients :
        pc[c] = "done" /\ acc[c] # <<>> =>
            /\ ~write_to_disk[c] => persisted[c] = "skipped"
            /\ persisted[c] \in {"skipped", "ok"} => result[c] = Some(acc[c])
            /\ PersistFailed(c) => result[c] = None /\ models[c] = Some(acc[c])

\* C6 happens: no cache path resolves, the refresh returns None and the client
\* holds the records.
C6_Witness ==
    \E c \in Clients :
        /\ pc[c] = "done"
        /\ acc[c] # <<>>
        /\ persisted[c] = "nopath"
        /\ result[c] = None
        /\ models[c] = Some(acc[c])

\* C7 as claimed: the loop is left on the first page answered with an empty
\* array, so no call is fetching after such an answer.
C7_StopsAtEmptyPage ==
    \A c \in Clients : empties[c] > 0 => pc[c] = "done"

\* C8: the cache file changes only in the step that ends a refresh which was
\* to persist and had fetched a record; no other refresh, and neither
\* should_update_cache nor with_cache, touches its existence, bytes or time.
C8_FileWrittenOnlyByPersistingRefresh ==
    [][fs' # fs =>
          \E c \in clients :
              /\ pc[c] = "fetching" /\ pc'[c] = "done"
              /\ write_to_disk[c]
              /\ acc[c] # <<>>]_vars

\* C8 happens: a persisting refresh wrote the file where there was none or
\* another, and it holds the snapshot fetched.
C8_Witness ==
    \E c \in Clients :
        /\ pc[c] = "done"
        /\ persisted[c] = "ok"
        /\ before[c] # models[c]
        /\ fs["cache"] = Some(File(to_string_pretty(acc[c]), now))

\* C9: while a refresh is in flight the held snapshot is the one held before
\* the call; when it is over the snapshot is still that one if nothing was
\* accumulated, and the whole accumulated sequence otherwise.
C9_SnapshotReplacedAtOnce ==
    \A c \in Clients :
        /\ pc[c] = "fetching" => models[c] = before[c]
        /\ pc[c] = "done" =>
             models[c] = (IF acc[c] = <<>> THEN before[c] ELSE Some(acc[c]))

\* C9 happens: a refresh has fetched a page of records and the client still
\* holds the other snapshot it held before.
C9_Witness ==
    \E c \in Clients :
        /\ pc[c] = "fetching"
        /\ answered[c] >= 1
        /\ acc[c] # <<>>
        /\ IsSome(before[c])
        /\ Unwrap(before[c]) # <<>>
        /\ models[c] = before[c]
        /\ before[c] # Some(acc[c])

\* C10: the outcome of a refresh is a function of the transport's answers, of
\* write_to_disk and of the file system's answers, the same for no channel, a
\* live one and a dead one: the loop goes on after every decodable page, it
\* requests pages 1..k+1, and the returned value, the held snapshot and the
\* file are those of the pages' records.
C10_OutcomeIgnoresProgress ==
    \A c \in Clients :
        LET exp == Decoded(served[c])
        IN  /\ pc[c] \in {"fetching", "done"} =>
                 /\ acc[c] = exp
                 /\ requested[c] = [i \in 1..(answered[c] + 1) |-> i]
            /\ pc[c] = "done" =>
                 /\ models[c] = (IF exp = <<>> THEN before[c] ELSE Some(exp))
                 /\ result[c] = (IF exp # <<>> /\ persisted[c] \in {"skipped", "ok"}
                                 THEN Some(exp) ELSE None)
                 /\ persisted[c] = "ok" =>
                      \E p \in Paths : fs[p] = Some(File(to_string_pretty(exp), now))

\* C10 happens: a refresh whose channel was dead from the start fetched
\* records over two pages, returned them and wrote them.
C10_Witness ==
    \E c \in Clients :
        /\ pc[c] = "done"
        /\ progress[c] = "closed"
        /\ answered[c] = 2
        /\ Len(served[c]) = 2
        /\ sent[c] = <<>>
        /\ persisted[c] = "ok"
        /\ result[c] = Some(Decoded(served[c]))


\* ------------------------------------------------------------------ queries
\* The snapshot a filter was asked about.
Source == IF IsSome(obs.supplied) THEN Unwrap(obs.supplied) ELSE Unwrap(obs.held)

\* The k-th smallest member of a set of indices.
Nth(I, k) == CHOOSE i \in I : Cardinality({j \in I : j < i}) = k - 1

\* The subsequence of s at the indices I, in s's order.
Picked(s, I) == [k \in 1..Cardinality(I) |-> s[Nth(I, k)]]

\* The indices of the records of s that a filter asked with obs.arg has to
\* keep.
KeptOf(s) ==
    {i \in 1..Len(s) :
        CASE obs.op = "models_by_owner" -> s[i].owner = obs.arg
          [] obs.op = "models_by_private" -> s[i].private = obs.arg
          [] obs.op = "models_by_tag" ->
               obs.arg \in {s[i].tags[j] : j \in 1..Len(s[i].tags)}}

Kept == KeptOf(Source)

Filtered == obs.op \in {"models_by_owner", "models_by_private", "models_by_tag"}

\* C11: models_by_owner, models_by_private and models_by_tag return exactly
\* the records of the snapshot that have the owner, the flag or the tag asked
\* for (the very string), in the snapshot's order, and the client's held
\* snapshot is what it was before the call.
C11_FiltersKeepMatchingInOrder ==
    Filtered /\ IsSome(obs.value) =>
        /\ Unwrap(obs.value) = Picked(Source, Kept)
        /\ models[obs.client] = obs.held

\* C11 happens: models_by_owner("alice") on a snapshot of three records whose
\* second is owned by "Alice": it is passed over between the two kept ones.
C11_Witness ==
    /\ obs.op = "models_by_owner"
    /\ obs.arg = "alice"
    /\ IsSome(obs.value)
    /\ Len(Source) = 3
    /\ Source[2].owner = "Alice"
    /\ Kept = {1, 3}
    /\ Len(Unwrap(obs.value)) = 2


\* The held snapshot get_owners / get_tags read, and the strings in it.
Held == Unwrap(obs.held)
OwnersOf(s) == {s[i].owner : i \in 1..Len(s)}
TagsOf(s) == UNION {{s[i].tags[j] : j \in 1..Len(s[i].tags)} : i \in 1..Len(s)}
Listed == obs.op \in {"get_owners", "get_tags"}
Occurring == IF obs.op = "get_owners" THEN OwnersOf(Held) ELSE TagsOf(Held)

\* a's lower-cased form is not after b's.
LowerNotAfter(a, b) == cmp(to_lowercase(Chars[a]), to_lowercase(Chars[b])) # "Greater"
SameLower(a, b) == to_lowercase(Chars[a]) = to_lowercase(Chars[b])

\* C12: for every held snapshot get_owners returns the owner strings that
\* occur in it and get_tags the tag strings that occur in any record's tags,
\* all of them, each once, ascending by lower-cased form.
C12_DistinctSortedByLowercase ==
    Listed /\ IsSome(obs.held) =>
        /\ IsSome(obs.value)
        /\ LET v == Unwrap(obs.value)
           IN  /\ {v[i] : i \in 1..Len(v)} = Occurring
               /\ \A i, j \in 1..Len(v) : i < j => v[i] # v[j] /\ LowerNotAfter(v[i], v[j])

\* C12 happens: get_tags on three records whose tags are robot, Robot, arm and
\* robot again.
C12_Witness ==
    /\ obs.op = "get_tags"
    /\ IsSome(obs.held)
    /\ Len(Held) = 3
    /\ flat_map_tags(Held) = <<"robot", "Robot", "arm", "robot">>
    /\ obs.value = Some(<<"arm", "robot", "Robot">>)

\* The owners of the held snapshot, record by record.
OwnerList == [i \in 1..Len(Held) |-> Held[i].owner]

\* Where a string first occurs among the owners of the held snapshot.
FirstSeen(o) == CHOOSE i \in 1..Len(Held) :
                    Held[i].owner = o /\ \A j \in 1..(i - 1) : Held[j].owner # o

\* C13 as claimed: get_owners keeps one owner of those that differ only in
\* letter case; for owners "Bob", "alice", "Alice" it returns ["alice", "Bob"].
C13_OneSpellingPerOwner ==
    obs.op = "get_owners" /\ IsSome(obs.value) =>
        LET v == Unwrap(obs.value)
        IN  /\ \A i, j \in 1..Len(v) : i < j => ~SameLower(v[i], v[j])
            /\ OwnerList = <<"Bob", "alice", "Alice">> => v = <<"alice", "Bob">>

\* C13 amended: get_owners keeps every spelling that occurs, once; owners that
\* differ only in letter case are all returned, next to each other, in the
\* order first seen; for owners "Bob", "alice", "Alice" it returns
\* ["alice", "Alice", "Bob"].
C13_EverySpellingKept ==
    obs.op = "get_owners" /\ IsSome(obs.value) =>
        LET v == Unwrap(obs.value)
        IN  /\ Len(v) = Cardinality(OwnersOf(Held))
            /\ \A o \in OwnersOf(Held) : \E i \in 1..Len(v) : v[i] = o
            /\ \A i, j \in 1..Len(v) :
                 i < j /\ SameLower(v[i], v[j]) => FirstSeen(v[i]) < FirstSeen(v[j])
            /\ OwnerList = <<"Bob", "alice", "Alice">> => v = <<"alice", "Alice", "Bob">>

\* C13 happens: get_owners on a snapshot whose owners are "Bob", "alice",
\* "Alice" in this order.
C13_Witness ==
    /\ obs.op = "get_owners"
    /\ IsSome(obs.held)
    /\ OwnerList = <<"Bob", "alice", "Alice">>
    /\ obs.value = Some(<<"alice", "Alice", "Bob">>)


\* C15: a filter computes over the snapshot supplied when one is supplied,
\* whatever the client holds, and over the held snapshot when none is;
\* get_owners and get_tags, which take no snapshot, compute over the held
\* one; with no snapshot supplied and none held every query returns None.
C15_SuppliedSnapshotFirst ==
    /\ Filtered =>
         obs.value =
            (IF IsSome(obs.supplied)
             THEN Some(Picked(Unwrap(obs.supplied), KeptOf(Unwrap(obs.supplied))))
             ELSE IF IsSome(obs.held)
             THEN Some(Picked(Held, KeptOf(Held)))
             ELSE None)
    /\ Listed =>
         /\ IsSome(obs.value) = IsSome(obs.held)
         /\ IsSome(obs.value) =>
              {Unwrap(obs.value)[i] : i \in 1..Len(Unwrap(obs.value))} = Occurring

\* C15 happens: models_by_tag("arm") is given a snapshot with such a record by
\* a client that holds records none of which has the tag, and returns it.
C15_Witness ==
    /\ obs.op = "models_by_tag"
    /\ obs.arg = "arm"
    /\ IsSome(obs.supplied)
    /\ IsSome(obs.held)
    /\ Held # <<>>
    /\ KeptOf(Held) = {}
    /\ KeptOf(Unwrap(obs.supplied)) # {}
    /\ obs.value = Some(Picked(Unwrap(obs.supplied), KeptOf(Unwrap(obs.supplied))))
    /\ Unwrap(obs.value) # <<>>


\* ------------------------------------------------------------------ round trip
\* The path a client's refresh writes to and its with_cache(None) reads.
PathOf(c) == OrElse(cache_path[c], default_cache_path)

\* The path a with_cache call read: the one given, else the default one.
Loaded == OrElse(obs.path, default_cache_path)

\* The snapshots a refresh can have persisted.
Written == SeqsUpTo({Unwrap(DeFuelModel(w)) : w \in {W1, W2}}, MaxRecords) \ {<<>>}

\* C14: when a refresh that was to persist has returned Some, the cache file
\* decodes to the snapshot the client holds, record by record in the same
\* order; and a with_cache that reads a file a refresh has written leaves the
\* client with the snapshot that was written.
C14_PersistThenLoadRoundTrips ==
    /\ \A c \in Clients :
         pc[c] = "done" /\ write_to_disk[c] /\ IsSome(result[c]) =>
             /\ IsSome(PathOf(c))
             /\ IsSome(fs[Unwrap(PathOf(c))])
             /\ from_str(Unwrap(fs[Unwrap(PathOf(c))]).bytes) = models[c]
             /\ models[c] = result[c]
    /\ obs.op = "with_cache" /\ obs.io_ok /\ IsSome(Loaded) =>
         \A s \in Written :
             fs[Unwrap(Loaded)] # None
               /\ Unwrap(fs[Unwrap(Loaded)]).bytes = to_string_pretty(s)
             => models[obs.client] = Some(s)

\* C14 happens: a client that had persisted two records, one of them without
\* tags, and held another snapshot since, loads the file and holds the two
\* records again.
C14_Witness ==
    /\ obs.op = "with_cache"
    /\ obs.io_ok
    /\ Loaded = Some("cache")
    /\ IsSome(obs.held)
    /\ obs.held # models[obs.client]
    /\ IsSome(models[obs.client])
    /\ Len(Unwrap(models[obs.client])) = 2
    /\ \E i \in 1..2 : Unwrap(models[obs.client])[i].tags = <<>>
    /\ fs["cache"] # None
    /\ Unwrap(fs["cache"]).bytes = to_string_pretty(Unwrap(models[obs.client]))


\* ------------------------------------------------------------------ pagination
\* C16: in a refresh call that has had k pages decoded, the pages requested
\* are 1, 2, ..., k+1 in this order, each once: the call starts at page 1, the
\* page number goes up by one with each decoded page, and the page that fails
\* is the last one requested.
C16_PagesRequestedInOrder ==
    \A c \in Clients :
        pc[c] \in {"fetching", "done"} =>
            /\ Len(requested[c]) = answered[c] + 1
            /\ \A i \in 1..Len(requested[c]) : requested[c][i] = i
            /\ page[c] = answered[c] + 1

\* C16 happens: a client that holds the snapshot of an earlier call has had
\* two pages decoded and the third fail.
C16_Witness ==
    \E c \in Clients :
        /\ pc[c] = "done"
        /\ IsSome(before[c])
        /\ answered[c] = 2
        /\ requested[c] = <<1, 2, 3>>


\* C17: with a channel whose receiver lives, the receiver has got the records
\* of every decoded page, in record order, when the page is done and when the
\* loop is left: what it has got is the accumulator, whatever the call
\* returns afterwards, and a page that does not decode adds nothing.
C17_SinkGetsAccumulator ==
    \A c \in Clients :
        pc[c] \in {"fetching", "done"} /\ progress[c] = "open" =>
            /\ sent[c] = acc[c]
            /\ sent[c] = Decoded(served[c])

\* C17 happens: two records went to the receiver, both in one page or one per
\* page, and the call returned None because persistence failed.
C17_Witness ==
    \E c \in Clients :
        /\ pc[c] = "done"
        /\ progress[c] = "open"
        /\ PersistFailed(c)
        /\ result[c] = None
        /\ Len(sent[c]) = 2
        /\ sent[c] = acc[c]


\* ------------------------------------------------------------------ loading
\* A text that is no list of model records: no JSON array, or an array with
\* an object that lacks a required key.
Undecodable(text) ==
    \/ ~text.json
    \/ \E i \in 1..Len(text.items) : ~(RequiredKeys \subseteq DOMAIN text.items[i])

\* The file with_cache found at the path it read gives no snapshot: there is
\* none, the read failed, or its bytes do not decode.
LoadFails ==
    \/ fs[Unwrap(Loaded)] = None
    \/ ~obs.io_ok
    \/ Undecodable(Unwrap(fs[Unwrap(Loaded)]).bytes)

\* C18: a with_cache that resolves a path records it as the cache path, and
\* leaves the client without a snapshot when the file is missing, unreadable
\* or undecodable, whatever it held; a with_cache given no path where no
\* default resolves leaves the snapshot and the cache path as they were.
C18_FailedLoadClearsSnapshot ==
    obs.op = "with_cache" =>
        /\ IsSome(Loaded) =>
             /\ cache_path[obs.client] = Loaded
             /\ LoadFails => models[obs.client] = None
        /\ ~IsSome(Loaded) =>
             /\ models[obs.client] = obs.held
             /\ cache_path[obs.client] = obs.had_path

\* C18 happens: a client that held fetched records calls with_cache on a file
\* whose object lacks a required key, and holds nothing afterwards.
C18_Witness ==
    /\ obs.op = "with_cache"
    /\ obs.io_ok
    /\ IsSome(obs.held)
    /\ Unwrap(obs.held) # <<>>
    /\ Loaded = Some("cache")
    /\ fs["cache"] = Some(File(JsonArray(<<W3>>), MaxTime - 1))
    /\ models[obs.client] = None
    /\ cache_path[obs.client] = Some("cache")


\* ------------------------------------------------------------------ two instances
\* Both instances have finished a refresh that wrote the cache file.
BothWrote == \A c \in Clients : pc[c] = "done" /\ persisted[c] = "ok"

\* The instance whose write_all came last, and the other one.
LastWriter == wlog[Len(wlog)].client
FirstWriter == CHOOSE c \in Clients : c # LastWriter

\* The text of the snapshot an instance holds.
TextOf(c) == to_string_pretty(Unwrap(models[c]))
CacheBytes == Unwrap(fs["cache"]).bytes

\* The two fs::write calls overlapped: the second file was created before the
\* first write_all had returned.
Overlapped == wlog[Len(wlog) - 1].step = "write"

\* The longer of two lengths.
Longer(m, n) == IF m >= n THEN m ELSE n

\* C19 as claimed: once both instances have written, the cache file is the
\* complete snapshot of the one that wrote last, under every interleaving.
C19_LastWriterWins ==
    BothWrote => CacheBytes = TextOf(LastWriter)

\* C19 amended: once both instances have written, the cache file is the
\* complete snapshot of the one whose write_all returned last if its fs::write
\* began after the other's had ended; if the two overlapped, the file is as
\* long as the longer of the two texts and each of its bytes is the byte one
\* of the two texts has at that offset, or a zero byte: it need be neither
\* snapshot.
C19_LastWriterWinsUnlessOverlapped ==
    BothWrote =>
        /\ Len(wlog) = 4
        /\ ~Overlapped => CacheBytes = TextOf(LastWriter)
        /\ Overlapped =>
             /\ TextSize(CacheBytes) = Longer(TextSize(TextOf("a")), TextSize(TextOf("b")))
             /\ \A i \in 1..TextSize(CacheBytes) :
                  Byte(Bytes(CacheBytes), i)
                    \in {Byte(Bytes(TextOf("a")), i), Byte(Bytes(TextOf("b")), i), Nul}

\* C19 happens: "b" wrote after "a" had finished writing, and the file is
\* b's snapshot, which is not the one "a" holds.
C19_Witness ==
    /\ BothWrote
    /\ ~Overlapped
    /\ LastWriter = "b"
    /\ CacheBytes = TextOf("b")
    /\ models["a"] # models["b"]
    /\ from_str(CacheBytes) # models["a"]


\* ------------------------------------------------------------------ first write
\* A refresh that was to persist has got through write_all, after which
\* update_cache_with_progress returns Some.
WroteOk == \E i \in 1..Len(wlog) : wlog[i].step = "write"

\* C20 as claimed, for a client whose cache path had no file and whose
\* metadata reads succeed: once a persisting refresh has returned Some,
\* should_update_cache(&None) answers false whatever refreshes, loads and
\* queries followed; and as long as none has, should_update_cache answers
\* true for every threshold.
C20_DueUntilFirstPersistedWrite ==
    Asked /\ obs.io_ok =>
        /\ WroteOk /\ ~IsSome(obs.threshold) => obs.value = FALSE
        /\ ~WroteOk => obs.value = TRUE

====
